---- MODULE Spec2Model ----
(***************************************************************************)
(* A model of strings.py: the LocalizedString record (its two regular      *)
(* expressions, from_line, parse_comment, is_raw, __str__), the line       *)
(* parser strings_from_encoded_file, the tree extractor recur_node with    *)
(* its caller strings_from_encoded_lg_file, the categorizing writer        *)
(* strings_to_file, the incremental updater                                *)
(* update_encoded_file_with_strings and match_strings.                     *)
(*                                                                         *)
(* Text is a sequence of one-character strings, so that the regular        *)
(* expressions, strip, line[:-1] and the code point order of sort() are    *)
(* computed character by character.  Python's None is the value None.      *)
(***************************************************************************)
EXTENDS Integers, Sequences, FiniteSets, TLC

\* ------------------------------------------------------------------ text

\* The characters of a string literal, one element per character.
Chars(s) == [i \in 1..Len(s) |-> SubSeq(s, i, i)]

\* Python's None: a value that is no text (its one element is no character).
None == <<"None">>

Q == "\""
NL == "\n"

Max(S) == CHOOSE x \in S : \A y \in S : y <= x

\* The printable ASCII characters in code point order: from the blank (32)
\* to the underscore (95), and from "a" (97) to the tilde (126).
AsciiLow ==
    Chars(" !\"#$%&'()*+,-./0123456789:;<=>?@ABCDEFGHIJKLMNOPQRSTUVWXYZ[\\]^_")

AsciiHigh == Chars("abcdefghijklmnopqrstuvwxyz{|}~")

\* ord(c): the code point of a character.
ord(c) ==
    IF c = NL THEN 10
    ELSE IF \E i \in 1..Len(AsciiLow) : AsciiLow[i] = c
    THEN 31 + (CHOOSE i \in 1..Len(AsciiLow) : AsciiLow[i] = c)
    ELSE 96 + (CHOOSE i \in 1..Len(AsciiHigh) : AsciiHigh[i] = c)

\* The order of Python's unicode strings: by code point, a proper prefix first.
RECURSIVE StrLess(_, _)
StrLess(s, t) ==
    IF t = <<>> THEN FALSE
    ELSE IF s = <<>> THEN TRUE
    ELSE IF ord(Head(s)) # ord(Head(t)) THEN ord(Head(s)) < ord(Head(t))
    ELSE StrLess(Tail(s), Tail(t))

StrLeq(s, t) == s = t \/ StrLess(s, t)

\* The regular expression classes \w (ASCII, no re.UNICODE flag) and the
\* dot, which matches everything but a line feed.
WordChars ==
    {c \in {AsciiLow[i] : i \in 1..Len(AsciiLow)}
              \cup {AsciiHigh[i] : i \in 1..Len(AsciiHigh)} :
        \/ ord(c) \in 48..57
        \/ ord(c) \in 65..90
        \/ ord(c) \in 97..122
        \/ c = "_"}

IsWord(c) == c \in WordChars
IsSpace(c) == c = " " \/ c = NL
IsDot(c) == c # NL

AllDot(s, i, j) == \A k \in i..j : IsDot(s[k])
AllWord(s, i, j) == \A k \in i..j : IsWord(s[k])

\* s[i..] starts with the characters of t.
StartsAt(s, i, t) ==
    /\ i >= 1
    /\ i + Len(t) - 1 <= Len(s)
    /\ \A k \in 1..Len(t) : s[i + k - 1] = t[k]

\* The position i is where "$" matches: the end of the text, or right before
\* a line feed that ends it.
AtEnd(s, i) == i = Len(s) + 1 \/ (i = Len(s) /\ s[i] = NL)

\* unicode.strip(): whitespace removed at both ends.
RECURSIVE lstrip(_)
lstrip(s) == IF s # <<>> /\ IsSpace(Head(s)) THEN lstrip(Tail(s)) ELSE s

RECURSIVE rstrip(_)
rstrip(s) ==
    IF s # <<>> /\ IsSpace(s[Len(s)]) THEN rstrip(SubSeq(s, 1, Len(s) - 1)) ELSE s

strip(s) == rstrip(lstrip(s))

\* s.find(c) >= 0 for the text t: t occurs in s.
Contains(s, t) == \E i \in 1..Len(s) : StartsAt(s, i, t)

\* ------------------------------------------------------- LocalizedString

LocalizedString(key, value, comment) ==
    [key |-> key, value |-> value, comment |-> comment]

\* The None that stands where a LocalizedString may: no line and no
\* constructor yields it, a key being a text.
NoString == LocalizedString(None, None, None)

\* Python's truth of a text or None: None and '' are false.
Truthy(x) == x # None /\ x # <<>>

\* x or ''
OrEmpty(x) == IF Truthy(x) THEN x ELSE <<>>

is_raw(ls) == ls.value = ls.key

\* The literal pieces of the two expressions and of __str__.
CommentOpen == Chars("/* ")
CommentClose == Chars(" */")
InlineOpen == Chars(" /* ")
StrEquals == Chars("\" = \"")
StrEnd == Chars("\";")
StrComment == Chars("\"; /* ")

\* LocalizedString.__str__
str(ls) ==
    IF Truthy(ls.comment)
    THEN <<Q>> \o OrEmpty(ls.key) \o StrEquals \o OrEmpty(ls.value)
            \o StrComment \o ls.comment \o CommentClose
    ELSE <<Q>> \o OrEmpty(ls.key) \o StrEquals \o OrEmpty(ls.value) \o StrEnd

\* COMMENT_EXPR.match(line): ^\w*/\* (?P<comment>.+) \*/\w*$
\* The leading \w* can only stop at the first character that is no word
\* character (the "/" that follows is none); the greedy comment takes the
\* longest text after which " */", word characters and the end follow.
CommentStart(line) ==
    LET nonword == {i \in 1..Len(line) : ~IsWord(line[i])}
    IN  IF nonword = {} THEN 0
        ELSE LET a == CHOOSE i \in nonword : \A j \in nonword : i <= j
             IN  IF StartsAt(line, a, CommentOpen) THEN a + 3 ELSE 0

CommentEnds(line, cs) ==
    {ce \in cs..Len(line) :
        /\ StartsAt(line, ce + 1, CommentClose)
        /\ AllDot(line, cs, ce)
        /\ \E m \in (ce + 3)..Len(line) :
              AllWord(line, ce + 4, m) /\ AtEnd(line, m + 1)}

parse_comment(line) ==
    LET cs == CommentStart(line)
        ces == CommentEnds(line, cs)
    IN  IF cs = 0 \/ ces = {} THEN None
        ELSE SubSeq(line, cs, Max(ces))

\* LOCALIZED_STRING_EXPR.match(line):
\*   ^"(?P<key>.+)" ?= ?"(?P<value>.+)";(?: /\* (?P<comment>.+) \*/)?$
\* SepEnd: the position after `" ?= ?"` when it matches from position p
\* (0 when it does not; an optional blank is taken whenever it is there,
\* and giving it back cannot help, "=" and the quote being no blanks).
SepEnd(line, p) ==
    LET p1 == IF StartsAt(line, p + 1, <<" ">>) THEN p + 2 ELSE p + 1
        p2 == IF StartsAt(line, p1 + 1, <<" ">>) THEN p1 + 2 ELSE p1 + 1
    IN  IF /\ StartsAt(line, p, <<Q>>)
           /\ StartsAt(line, p1, <<"=">>)
           /\ StartsAt(line, p2, <<Q>>)
        THEN p2 + 1 ELSE 0

\* The text from position r is the optional comment group and the end:
\* the comment's last position, 0 for no comment group, -1 for no match.
TailComment(line, r) ==
    IF AtEnd(line, r) THEN 0
    ELSE IF StartsAt(line, r, InlineOpen)
    THEN LET ces == {ce \in (r + 4)..Len(line) :
                        /\ StartsAt(line, ce + 1, CommentClose)
                        /\ AtEnd(line, ce + 4)
                        /\ AllDot(line, r + 4, ce)}
         IN  IF ces = {} THEN -1 ELSE Max(ces)
    ELSE -1

\* The ends of a value that starts at vs and after which `";`, the optional
\* comment and the end of the line match.
ValueEnds(line, vs) ==
    {ve \in vs..Len(line) :
        /\ StartsAt(line, ve + 1, StrEnd)
        /\ AllDot(line, vs, ve)
        /\ TailComment(line, ve + 3) >= 0}

\* The ends of a key (it starts at 2) for which the whole expression matches.
KeyEnds(line) ==
    {ke \in 2..(Len(line) - 1) :
        /\ line[ke + 1] = Q
        /\ SepEnd(line, ke + 1) # 0
        /\ AllDot(line, 2, ke)
        /\ ValueEnds(line, SepEnd(line, ke + 1)) # {}}

\* LocalizedString.from_line: the greedy groups take the longest key, and
\* for it the longest value, for which the expression matches.
from_line(line) ==
    IF ~StartsAt(line, 1, <<Q>>) THEN NoString
    ELSE IF KeyEnds(line) = {} THEN NoString
    ELSE LET ke == Max(KeyEnds(line))
             vs == SepEnd(line, ke + 1)
             ve == Max(ValueEnds(line, vs))
             ce == TailComment(line, ve + 3)
         IN  LocalizedString(
                 SubSeq(line, 2, ke),
                 SubSeq(line, vs, ve),
                 IF ce = 0 THEN None ELSE SubSeq(line, ve + 7, ce))

\* ----------------------------------------------------------------- state

VARIABLES
    pc,                 \* the position of the operation under way
    log,                \* what logging has been given, in order
    raised,             \* the exception that left the operation, or "none"
    record,             \* LocalizedString: the record rendered and parsed back
    line,               \* its rendering, str(record)
    result,             \* from_line(line)
    file,               \* the strings file at file_path, as the lines it yields
    pos,                \* the lines of the file the loop has consumed
    comment,            \* strings_from_encoded_file: the pending comment
    localized_strings,  \* the mapping read, written or updated with
    output_strings,     \* update_encoded_file_with_strings: the lines to write
    keys,               \* update_encoded_file_with_strings: the keys consumed
    written,            \* the text of the file after each finished update
    scanned_strings,    \* match_strings: the scanned mapping
    reference_strings,  \* match_strings: the reference mapping
    final_strings,      \* match_strings: the mapping returned
    escape_strings,     \* strings_to_file: the escape mapping
    trans_keys,         \* strings_to_file: the three key sets
    not_keys,
    extra_keys,
    output,             \* strings_to_file: the text written
    document,           \* the translation export: a tree, or Unparsable
    lg_strings          \* recur_node: the list of records emitted

commonVars == <<pc, log, raised>>
recordVars == <<record, line, result>>
fileVars == <<file, pos, comment, localized_strings, output_strings, keys, written>>
matchVars == <<scanned_strings, reference_strings, final_strings>>
writerVars == <<escape_strings, trans_keys, not_keys, extra_keys, output>>
treeVars == <<document, lg_strings>>

vars == <<commonVars, recordVars, fileVars, matchVars, writerVars, treeVars>>

\* The state of the operations a specification does not run.
IdleRecord == record = NoString /\ line = None /\ result = NoString
IdleFile ==
    /\ file = <<>>
    /\ pos = 0
    /\ comment = None
    /\ localized_strings = <<>>
    /\ output_strings = <<>>
    /\ keys = {}
    /\ written = <<>>
IdleMatch ==
    scanned_strings = <<>> /\ reference_strings = <<>> /\ final_strings = <<>>
IdleWriter ==
    /\ escape_strings = <<>>
    /\ trans_keys = {}
    /\ not_keys = {}
    /\ extra_keys = {}
    /\ output = <<>>
IdleTree == document = None /\ lg_strings = <<>>

\* ---------------------------------------------------------------- inputs

Sentinel == Chars("No comment provided by engineer.")

\* The keys the mappings are built from: the first MaxKeys of KeyPool.
MaxKeys == 3
KeyPool == <<Chars("a"), Chars("a b"), Chars("b"), Chars("KEY"), Chars("c")>>
Keys == {KeyPool[i] : i \in 1..MaxKeys}

\* A mapping is a function from its keys to records; each record is stored
\* under its own key.
Store(m, k, v) == [y \in DOMAIN m \cup {k} |-> IF y = k THEN v ELSE m[y]]

\* The mappings whose record for a key k is one of Variants(k).
MappingsOf(ks, Variants(_)) ==
    UNION {{m \in [S -> UNION {Variants(k) : k \in S}] :
                \A k \in S : m[k] \in Variants(k)} : S \in SUBSET ks}

\* ------------------------------------------- from_line(str(record))

RecordKeys == {Chars("KEY"), Chars("a"), Chars("a b")}
RecordValues == {None, <<>>, Chars("VALUE"), Chars("a"), Chars("x;y")}
RecordComments ==
    {None, <<>>, Chars("COMMENT"), Sentinel, Chars("say \"hi\""),
     Chars("x\" = \"y\"; /* z"), Chars("two\nlines")}

InitRecord ==
    /\ pc = "record"
    /\ log = <<>>
    /\ raised = "none"
    /\ record \in {LocalizedString(k, v, c) :
                      k \in RecordKeys, v \in RecordValues, c \in RecordComments}
    /\ line = None
    /\ result = NoString
    /\ IdleFile /\ IdleMatch /\ IdleWriter /\ IdleTree

\* str(record)
Render ==
    /\ pc = "record"
    /\ line' = str(record)
    /\ pc' = "line"
    /\ UNCHANGED <<log, raised, record, result, fileVars, matchVars, writerVars,
                   treeVars>>

\* LocalizedString.from_line(line)
FromLine ==
    /\ pc = "line"
    /\ result' = from_line(line)
    /\ pc' = "parsed"
    /\ UNCHANGED <<log, raised, record, line, fileVars, matchVars, writerVars,
                   treeVars>>

NextRecord == Render \/ FromLine

SpecRecord == InitRecord /\ [][NextRecord]_vars

\* A text holds neither a double quote nor a line feed.
Plain(t) == \A i \in 1..Len(t) : t[i] # Q /\ t[i] # NL

\* A comment, the sentinel compared as absent.
Normalized(c) == IF c = Sentinel THEN None ELSE c

\* C6 as stated: the round trip law for every record whose key and value hold
\* no double quote and no line feed, the value optional and the comment any
\* text or absent: from_line(str(record)) is a record with the same key,
\* value and comment (the sentinel comment compared as absent).
C6_RoundTrip ==
    (/\ pc = "parsed"
     /\ Plain(record.key)
     /\ record.value = None \/ Plain(record.value))
    => /\ result # NoString
       /\ result.key = record.key
       /\ result.value = record.value
       /\ Normalized(result.comment) = Normalized(record.comment)

\* ------------------------------------------- strings_from_encoded_file

\* The lines a file object yields: each ends with its line feed, but for a
\* last line that has none.
RECURSIVE SplitLines(_)
SplitLines(text) ==
    IF text = <<>> THEN <<>>
    ELSE IF \E i \in 1..Len(text) : text[i] = NL
    THEN LET i == CHOOSE j \in 1..Len(text) :
                      text[j] = NL /\ \A k \in 1..(j - 1) : text[k] # NL
         IN  <<SubSeq(text, 1, i)>> \o SplitLines(SubSeq(text, i + 1, Len(text)))
    ELSE <<text>>

\* '\n'.join(strings)
RECURSIVE Join(_)
Join(strings) ==
    IF strings = <<>> THEN <<>>
    ELSE IF Len(strings) = 1 THEN strings[1]
    ELSE strings[1] \o <<NL>> \o Join(Tail(strings))

\* A file is kept as the lines iterating over it yields, SplitLines of its
\* text.  Ended(lines): each of the lines with its line feed.
Ended(lines) == [i \in 1..Len(lines) |-> lines[i] \o <<NL>>] \o <<>>

\* The sequences over S of length at most n.
SeqsUpTo(S, n) == UNION {[1..k -> S] : k \in 0..n}

\* pending_comment with a blank line that leaves the pending comment alone.
pending_comment_across_blank(pending, stripped) ==
    LET current_comment == parse_comment(stripped)
    IN  IF stripped # <<>> /\ Truthy(current_comment)
           /\ current_comment # Sentinel
        THEN current_comment
        ELSE pending

\* The pending comment after the (stripped) line: a blank line clears it,
\* a comment line that is not the sentinel sets it, any other line keeps it.
pending_comment(pending, stripped) ==
    IF stripped = <<>> THEN None
    ELSE LET current_comment == parse_comment(stripped)
         IN  IF Truthy(current_comment)
             THEN IF current_comment # Sentinel THEN current_comment
                  ELSE pending
             ELSE pending

\* The record the (stripped) line stores: NoString for a blank line, a
\* comment line and a line from_line does not match.
stored_string(pending, stripped) ==
    IF stripped = <<>> \/ Truthy(parse_comment(stripped)) THEN NoString
    ELSE LET localized_string == from_line(stripped)
         IN  IF localized_string = NoString THEN NoString
             ELSE IF ~Truthy(localized_string.comment)
             THEN [localized_string EXCEPT !.comment = pending]
             ELSE localized_string

\* The line is logged as one that could not be parsed.
unparsed(stripped) ==
    /\ stripped # <<>>
    /\ ~Truthy(parse_comment(stripped))
    /\ from_line(stripped) = NoString

MaxLines == 3
ParserLines ==
    {<<>>,
     Chars("/* c1 */"),
     Chars("/* c2 */"),
     Chars("/* No comment provided by engineer. */"),
     Chars("\"a\" = \"A\";"),
     Chars("  \"a\" = \"B\"; /* own */ "),
     Chars("\"b\" = \"B\"; /* No comment provided by engineer. */"),
     Chars("garbage = 1")}

InitParser ==
    /\ pc = "parse"
    /\ log = <<>>
    /\ raised = "none"
    /\ file \in {Ended(ls) : ls \in SeqsUpTo(ParserLines, MaxLines)}
    /\ pos = 0
    /\ comment = None
    /\ localized_strings = <<>>
    /\ output_strings = <<>>
    /\ keys = {}
    /\ written = <<>>
    /\ IdleRecord /\ IdleMatch /\ IdleWriter /\ IdleTree

\* One turn of the loop over the lines of the file.
ParseLine ==
    /\ pc = "parse"
    /\ pos < Len(file)
    /\ LET stripped == strip(file[pos + 1])
           localized_string == stored_string(comment, stripped)
       IN  /\ comment' = pending_comment(comment, stripped)
           /\ localized_strings' =
                  IF localized_string = NoString THEN localized_strings
                  ELSE Store(localized_strings, localized_string.key,
                             localized_string)
           /\ log' = IF unparsed(stripped)
                     THEN Append(log, <<"error", "Could not parse">>)
                     ELSE log
    /\ pos' = pos + 1
    /\ UNCHANGED <<pc, raised, file, output_strings, keys, written, recordVars,
                   matchVars, writerVars, treeVars>>

\* The loop is over: the mapping is returned.
ParseReturn ==
    /\ pc = "parse"
    /\ pos = Len(file)
    /\ pc' = "parsed"
    /\ UNCHANGED <<log, raised, fileVars, recordVars, matchVars, writerVars,
                   treeVars>>

NextParser == ParseLine \/ ParseReturn

SpecParser == InitParser /\ [][NextParser]_vars

\* What a line is, by the two expressions alone: blank, a comment (with its
\* text), a record (with what from_line makes of it), or neither.
Classify(l) ==
    LET stripped == strip(l)
        text == IF stripped = <<>> THEN None ELSE parse_comment(stripped)
        string == IF stripped = <<>> \/ text # None THEN NoString
                  ELSE from_line(stripped)
    IN  [blank |-> stripped = <<>>, text |-> text, string |-> string]

\* The lines classified, as a sequence.
RECURSIVE ClassifyAll(_)
ClassifyAll(lines) ==
    IF lines = <<>> THEN <<>>
    ELSE <<Classify(Head(lines))>> \o ClassifyAll(Tail(lines))

\* The pending comment a record at line j meets: the text of the last line
\* before j that is blank or a comment other than the sentinel, when that
\* line is a comment; absent when it is blank or there is none.
PendingAt(kinds, j) ==
    LET marks == {i \in 1..(j - 1) :
                     \/ kinds[i].blank
                     \/ kinds[i].text # None /\ kinds[i].text # Sentinel}
    IN  IF marks = {} THEN None
        ELSE IF kinds[Max(marks)].blank THEN None
        ELSE kinds[Max(marks)].text

\* C7 as stated: no record of the mapping the line parser builds has the
\* sentinel comment, whether the sentinel stood on a comment line of its own
\* or as the inline comment of the record line.
C7_SentinelAbsent ==
    \A k \in DOMAIN localized_strings :
        localized_strings[k].comment # Sentinel

\* C9: when the lines of a file have been read, the mapping holds exactly the keys of the
\* record lines, and for each key the record of the last such
\* line: its inline comment when it has one, otherwise the pending comment
\* (the last comment line other than the sentinel, none at the start of the
\* file and after a blank line).  Lines that are neither add nothing.
C9_PendingComment ==
    pc = "parsed" =>
        LET kinds == ClassifyAll(SubSeq(file, 1, pos))
            recs == {j \in 1..pos : kinds[j].string # NoString}
        IN  /\ DOMAIN localized_strings = {kinds[j].string.key : j \in recs}
            /\ \A k \in DOMAIN localized_strings :
                  LET j == Max({i \in recs : kinds[i].string.key = k})
                      own == kinds[j].string
                  IN  /\ localized_strings[k].key = k
                      /\ localized_strings[k].value = own.value
                      /\ localized_strings[k].comment =
                            IF own.comment # None THEN own.comment
                            ELSE PendingAt(kinds, j)

\* A record line without an inline comment, after a comment line and a
\* sentinel comment line, has been stored with the text of the former.
C9_Witness ==
    /\ pc = "parsed"
    /\ Len(file) = 3
    /\ parse_comment(strip(file[1])) = Chars("c1")
    /\ parse_comment(strip(file[2])) = Sentinel
    /\ from_line(strip(file[3])).comment = None
    /\ DOMAIN localized_strings = {Chars("a")}
    /\ localized_strings[Chars("a")].comment = Chars("c1")

\* ---------------------------------- update_encoded_file_with_strings

\* list.sort() of texts: insertion into the sorted rest, by code point.
RECURSIVE Insert(_, _)
Insert(t, sorted) ==
    IF sorted = <<>> THEN <<t>>
    ELSE IF StrLeq(t, Head(sorted)) THEN <<t>> \o sorted
    ELSE <<Head(sorted)>> \o Insert(t, Tail(sorted))

RECURSIVE sort(_)
sort(texts) ==
    IF texts = <<>> THEN <<>> ELSE Insert(Head(texts), sort(Tail(texts)))

\* The elements of a set in some order (the order a dict iterates in).
RECURSIVE SomeOrder(_)
SomeOrder(S) ==
    IF S = {} THEN <<>>
    ELSE LET e == CHOOSE y \in S : TRUE IN <<e>> \o SomeOrder(S \ {e})

NewStringsHeader == Chars("/* New strings */")

\* What one line of the file adds to output_strings.
updated_line(strings, raw) ==
    LET current_string == from_line(strip(raw))
    IN  IF current_string # NoString
        THEN IF current_string.key \in DOMAIN strings
             THEN <<str(strings[current_string.key])>>
             ELSE <<>>
        ELSE <<SubSeq(raw, 1, Len(raw) - 1)>>

\* The key one line of the file adds to keys.
consumed_key(strings, raw) ==
    LET current_string == from_line(strip(raw))
    IN  IF current_string # NoString /\ current_string.key \in DOMAIN strings
        THEN {current_string.key}
        ELSE {}

\* The lines appended after the pass: nothing when every key was consumed.
new_strings(strings, consumed) ==
    LET rendered == sort(SomeOrder({str(strings[k]) :
                                        k \in DOMAIN strings \ consumed}))
    IN  IF Len(rendered) # 0
        THEN <<<<>>, NewStringsHeader>> \o rendered
        ELSE <<>>

MaxFileLines == 2
MaxRuns == 3
UpdaterLines ==
    {<<>>,
     Chars("/* c */"),
     Chars("junk"),
     Chars("\"a\" = \"old\";"),
     Chars(" \"a b\" = \"old\"; /* c */"),
     Chars("\"gone\" = \"old\";")}

\* The files: lines ended by line feeds, and the same with the line feed of
\* the last line missing (a last line that has no line feed is not empty).
UpdaterFiles ==
    LET ended == {Ended(ls) : ls \in SeqsUpTo(UpdaterLines, MaxFileLines)}
    IN  ended \cup
        {[f EXCEPT ![Len(f)] = SubSeq(f[Len(f)], 1, Len(f[Len(f)]) - 1)] :
            f \in {g \in ended : g # <<>> /\ Len(g[Len(g)]) > 1}}

\* The records a key has in the mappings updated with.
UpdaterVariants(k) ==
    {LocalizedString(k, Chars("T"), None), LocalizedString(k, <<>>, None)}

InitUpdater ==
    /\ pc = "update"
    /\ log = <<>>
    /\ raised = "none"
    /\ file \in UpdaterFiles
    /\ pos = 0
    /\ comment = None
    /\ localized_strings \in MappingsOf(Keys, UpdaterVariants)
    /\ output_strings = <<>>
    /\ keys = {}
    /\ written = <<file>>
    /\ IdleRecord /\ IdleMatch /\ IdleWriter /\ IdleTree

\* One turn of the loop over the lines of the file.
UpdateLine ==
    /\ pc = "update"
    /\ pos < Len(file)
    /\ output_strings' =
           output_strings \o updated_line(localized_strings, file[pos + 1])
    /\ keys' = keys \cup consumed_key(localized_strings, file[pos + 1])
    /\ pos' = pos + 1
    /\ UNCHANGED <<commonVars, file, comment, localized_strings, written,
                   recordVars, matchVars, writerVars, treeVars>>

\* After the loop: the new strings are appended and the file is written,
\* '\n'.join(output_strings) and a line feed.
UpdateWrite ==
    /\ pc = "update"
    /\ pos = Len(file)
    /\ output_strings' = output_strings \o new_strings(localized_strings, keys)
    /\ file' = SplitLines(Join(output_strings') \o <<NL>>)
    /\ written' = Append(written, file')
    /\ pc' = "written"
    /\ UNCHANGED <<log, raised, pos, comment, localized_strings, keys,
                   recordVars, matchVars, writerVars, treeVars>>

\* The caller updates the file again, with the same mapping.
UpdateAgain ==
    /\ pc = "written"
    /\ Len(written) <= MaxRuns
    /\ pc' = "update"
    /\ pos' = 0
    /\ output_strings' = <<>>
    /\ keys' = {}
    /\ UNCHANGED <<log, raised, file, comment, localized_strings, written,
                   recordVars, matchVars, writerVars, treeVars>>

NextUpdater == UpdateLine \/ UpdateWrite \/ UpdateAgain

SpecUpdater == InitUpdater /\ [][NextUpdater]_vars

\* The file the update under way (or just finished) has read.
FileRead == IF pc = "written" THEN written[Len(written) - 1] ELSE file

\* A line's content: the line without the line feed that ends it.
LineContent(raw) ==
    IF raw # <<>> /\ raw[Len(raw)] = NL THEN SubSeq(raw, 1, Len(raw) - 1)
    ELSE raw

\* What the lines of the original file are to become: a record line whose
\* key is in the mapping the rendering of the mapping's record, a record
\* line whose key is not nothing, any other line itself.
RECURSIVE CarriedOver(_, _)
CarriedOver(strings, lines) ==
    IF lines = <<>> THEN <<>>
    ELSE LET string == from_line(strip(Head(lines)))
             first == IF string = NoString THEN <<LineContent(Head(lines))>>
                      ELSE IF string.key \in DOMAIN strings
                      THEN <<str(strings[string.key])>>
                      ELSE <<>>
         IN  first \o CarriedOver(strings, Tail(lines))

\* The keys of the mapping that record lines of the file have.
ConsumedBy(strings, lines) ==
    {k \in DOMAIN strings :
        \E i \in 1..Len(lines) : from_line(strip(lines[i])).key = k}

\* How many lines of the file are carried over: all but the record lines
\* whose key the mapping has not.
CarriedCount(strings, lines) ==
    Cardinality({i \in 1..Len(lines) :
                    LET string == from_line(strip(lines[i]))
                    IN  string = NoString \/ string.key \in DOMAIN strings})

\* The keys of a set in ascending order.
RECURSIVE Ascending(_)
Ascending(S) ==
    IF S = {} THEN <<>>
    ELSE LET least == CHOOSE k \in S : \A y \in S : StrLeq(k, y)
         IN  <<least>> \o Ascending(S \ {least})

\* C4 as stated: what is written ahead of the new strings section is the
\* original line sequence, record lines with a key of the mapping replaced,
\* other record lines omitted and every other line unchanged, the last line
\* of the file included whether or not a line feed ends it.
C4_LinesPreserved ==
    pc = "written" =>
        LET carried == CarriedOver(localized_strings, FileRead)
        IN  /\ Len(output_strings) >= Len(carried)
            /\ SubSeq(output_strings, 1, Len(carried)) = carried

\* C5 as stated: the keys no record line consumed are rendered once each
\* after the lines carried over, below the line /* New strings */, in
\* ascending order of their keys; a consumed key is not appended.
C5_NewStringsByKey ==
    pc = "written" =>
        LET consumed == ConsumedBy(localized_strings, FileRead)
            fresh == Ascending(DOMAIN localized_strings \ consumed)
            kept == CarriedCount(localized_strings, FileRead)
        IN  IF fresh = <<>>
            THEN Len(output_strings) = kept
            ELSE /\ Len(output_strings) = kept + 2 + Len(fresh)
                 /\ output_strings[kept + 1] = <<>>
                 /\ output_strings[kept + 2] = NewStringsHeader
                 /\ \A i \in 1..Len(fresh) :
                       output_strings[kept + 2 + i] =
                           str(localized_strings[fresh[i]])

\* C10 as stated: a second update with the same mapping, and every later
\* one, leaves the file as the first update wrote it.
C10_Idempotent ==
    \A i \in 3..Len(written) : written[i] = written[2]

\* ------------------------------------------------------- match_strings

\* matched_string without the assignment of the scanned comment.
matched_string_reference_comment(value, reference_value) ==
    IF reference_value # NoString
    THEN IF is_raw(reference_value) THEN value ELSE reference_value
    ELSE value

\* The record match_strings keeps for a scanned record: the scanned record
\* when the reference has none for the key (a LocalizedString is never
\* false) or an untranslated one, otherwise the reference record, its
\* comment replaced by the scanned record's.
matched_string(value, reference_value) ==
    IF reference_value # NoString
    THEN IF is_raw(reference_value) THEN value
         ELSE [reference_value EXCEPT !.comment = value.comment]
    ELSE value

\* dict.get(key, None)
Get(strings, key) == IF key \in DOMAIN strings THEN strings[key] ELSE NoString

\* The reference record after match_strings has met the scanned record: a
\* translated reference record has had its comment assigned.
matched_reference(value, reference_value) ==
    IF ~is_raw(reference_value)
    THEN [reference_value EXCEPT !.comment = value.comment]
    ELSE reference_value

ScannedVariants(k) ==
    {LocalizedString(k, k, None), LocalizedString(k, k, Chars("src"))}

ReferenceVariants(k) ==
    {LocalizedString(k, k, Chars("ref")),
     LocalizedString(k, Chars("R"), None),
     LocalizedString(k, Chars("R"), Chars("ref"))}

InitMatch ==
    /\ pc = "match"
    /\ log = <<>>
    /\ raised = "none"
    /\ scanned_strings \in MappingsOf(Keys, ScannedVariants)
    /\ reference_strings \in MappingsOf(Keys, ReferenceVariants)
    /\ final_strings = <<>>
    /\ IdleRecord /\ IdleFile /\ IdleWriter /\ IdleTree

\* match_strings(scanned_strings, reference_strings)
MatchStrings ==
    /\ pc = "match"
    /\ final_strings' =
           [key \in DOMAIN scanned_strings |->
               matched_string(scanned_strings[key],
                              Get(reference_strings, key))]
    /\ reference_strings' =
           [key \in DOMAIN reference_strings |->
               IF key \in DOMAIN scanned_strings
               THEN matched_reference(scanned_strings[key],
                                      reference_strings[key])
               ELSE reference_strings[key]]
    /\ log' = log \o
           [i \in 1..Cardinality(DOMAIN reference_strings
                                    \ DOMAIN scanned_strings) |->
               <<"debug", "[deleted]">>]
    /\ pc' = "matched"
    /\ UNCHANGED <<raised, scanned_strings, recordVars, fileVars, writerVars,
                   treeVars>>

NextMatch == MatchStrings

SpecMatch == InitMatch /\ [][NextMatch]_vars

\* C2: the result has exactly the keys of scanned; for a key the reference
\* has not, or has untranslated, the result is the scanned record (key,
\* value and comment); for a key the reference has translated, the result
\* has the reference's value and the scanned record's comment.
C2_Match ==
    pc # "match" =>
        /\ DOMAIN final_strings = DOMAIN scanned_strings
        /\ \A k \in DOMAIN scanned_strings :
              IF k \notin DOMAIN reference_strings
                 \/ reference_strings[k].value = reference_strings[k].key
              THEN /\ final_strings[k].key = scanned_strings[k].key
                   /\ final_strings[k].value = scanned_strings[k].value
                   /\ final_strings[k].comment = scanned_strings[k].comment
              ELSE /\ final_strings[k].value = reference_strings[k].value
                   /\ final_strings[k].comment = scanned_strings[k].comment

\* A match in which the reference has a key scanned has not, a key it has
\* untranslated with a comment of its own, and a key it has translated
\* while the scanned record has a comment.
C2_Witness ==
    /\ pc = "matched"
    /\ DOMAIN reference_strings \ DOMAIN scanned_strings # {}
    /\ \E k \in DOMAIN scanned_strings \cap DOMAIN reference_strings :
          /\ is_raw(reference_strings[k])
          /\ reference_strings[k].comment # scanned_strings[k].comment
    /\ \E k \in DOMAIN scanned_strings \cap DOMAIN reference_strings :
          /\ ~is_raw(reference_strings[k])
          /\ scanned_strings[k].comment = Chars("src")
          /\ final_strings[k].value = Chars("R")

\* ------------------------------------------------------ strings_to_file

\* sorted_strings_from_dict: the records in the order of their sorted keys.
sorted_strings_from_dict(strings) ==
    LET sorted_keys == sort(SomeOrder(DOMAIN strings))
    IN  [i \in 1..Len(sorted_keys) |-> strings[sorted_keys[i]]] \o <<>>

\* str(comment): the text of a comment, "None" for None.
comment_str(c) == IF c = None THEN Chars("None") ELSE c

Extra == Chars("extra")

\* The key set the first loop puts a record in: "trans", "extra" or "not".
category(localized_string, escape_keys) ==
    IF is_raw(localized_string)
    THEN IF localized_string.key \in escape_keys
         THEN IF Contains(comment_str(localized_string.comment), Extra)
              THEN "extra"
              ELSE "trans"
         ELSE "not"
    ELSE IF Contains(comment_str(localized_string.comment), Extra)
         THEN "extra"
         ELSE "trans"

\* The flattening of a sequence of texts.
RECURSIVE Concat(_)
Concat(texts) ==
    IF texts = <<>> THEN <<>> ELSE Head(texts) \o Concat(Tail(texts))

\* One section: for each record, in order, whose key is in section_keys,
\* '%s\n\n' % record, the comment set to None first when cleared.
section(strings, section_keys, cleared) ==
    LET sorted == sorted_strings_from_dict(strings)
    IN  Concat([i \in 1..Len(sorted) |->
                   IF sorted[i].key \in section_keys
                   THEN str(IF cleared THEN [sorted[i] EXCEPT !.comment = None]
                            ELSE sorted[i]) \o <<NL, NL>>
                   ELSE <<>>] \o <<>>)

ExtraHeader == Chars("/*Extra*/")
NotTranslatedHeader == Chars("/*Not Translated*/")

\* A header as written: a line feed, the header and three line feeds.
header(text, section_keys) ==
    IF Cardinality(section_keys) # 0 THEN <<NL>> \o text \o <<NL, NL, NL>>
    ELSE <<>>

WriterComments == {None, Chars("an extra note"), Chars("Extra")}

WriterVariants(k) ==
    {LocalizedString(k, v, c) : v \in {k, Chars("T")}, c \in WriterComments}

EscapeVariants(k) == {LocalizedString(k, k, None)}

InitWriter ==
    /\ pc = "categorize"
    /\ log = <<>>
    /\ raised = "none"
    /\ localized_strings \in MappingsOf(Keys, WriterVariants)
    /\ escape_strings \in MappingsOf(Keys, EscapeVariants)
    /\ trans_keys = {}
    /\ not_keys = {}
    /\ extra_keys = {}
    /\ output = <<>>
    /\ file = <<>>
    /\ pos = 0
    /\ comment = None
    /\ output_strings = <<>>
    /\ keys = {}
    /\ written = <<>>
    /\ IdleRecord /\ IdleMatch /\ IdleTree

\* strings_to_file, its first loop: every record is put in one key set.
Categorize ==
    /\ pc = "categorize"
    /\ LET escape_keys == {escape_strings[k].key : k \in DOMAIN escape_strings}
           in(c) == {k \in DOMAIN localized_strings :
                        category(localized_strings[k], escape_keys) = c}
       IN  /\ trans_keys' = in("trans")
           /\ extra_keys' = in("extra")
           /\ not_keys' = in("not")
    /\ pc' = "categorized"
    /\ UNCHANGED <<log, raised, escape_strings, output, recordVars, fileVars,
                   matchVars, treeVars>>

\* strings_to_file, its three writing loops: the sections are written, and
\* the comments of the records of the first and the last are cleared.
WriteSections ==
    /\ pc = "categorized"
    /\ output' =
           section(localized_strings, trans_keys, TRUE)
           \o header(ExtraHeader, extra_keys)
           \o section(localized_strings, extra_keys, FALSE)
           \o header(NotTranslatedHeader, not_keys)
           \o section(localized_strings, not_keys, TRUE)
    /\ localized_strings' =
           [k \in DOMAIN localized_strings |->
               IF k \in trans_keys \cup not_keys
               THEN [localized_strings[k] EXCEPT !.comment = None]
               ELSE localized_strings[k]]
    /\ pc' = "sections written"
    /\ UNCHANGED <<log, raised, file, pos, comment, output_strings, keys,
                   written, escape_strings, trans_keys, not_keys, extra_keys,
                   recordVars, matchVars, treeVars>>

NextWriter == Categorize \/ WriteSections

SpecWriter == InitWriter /\ [][NextWriter]_vars

\* The keys of the record lines of the text between two positions of its
\* line sequence.
SectionKeys(lines, from, to) ==
    {from_line(strip(lines[i])).key : i \in from..to} \ {None}

\* The line of the text that is the header, 0 when there is none.
HeaderLine(lines, text) ==
    IF \E i \in 1..Len(lines) : strip(lines[i]) = text
    THEN CHOOSE i \in 1..Len(lines) : strip(lines[i]) = text
    ELSE 0

\* C1 as stated: every record is in exactly one section, in Extra when its
\* comment contains "extra" whatever its translation state, otherwise in
\* Translated when it is translated or its key is in the escape mapping,
\* otherwise in Not Translated.
C1_Sections ==
    /\ pc = "categorized" =>
          \A k \in DOMAIN localized_strings :
              LET ls == localized_strings[k]
              IN  IF ls.comment # None /\ Contains(ls.comment, Extra)
                  THEN k \in extra_keys /\ k \notin trans_keys \cup not_keys
                  ELSE IF ls.value # ls.key \/ k \in DOMAIN escape_strings
                  THEN k \in trans_keys /\ k \notin extra_keys \cup not_keys
                  ELSE k \in not_keys /\ k \notin extra_keys \cup trans_keys
    /\ pc = "sections written" =>
          LET lines == SplitLines(output)
              e == HeaderLine(lines, ExtraHeader)
              n == HeaderLine(lines, NotTranslatedHeader)
              last == Len(lines)
              firstEnd == IF e # 0 THEN e ELSE IF n # 0 THEN n ELSE last
          IN  /\ SectionKeys(lines, 1, firstEnd) = trans_keys
              /\ (IF e # 0
                  THEN SectionKeys(lines, e + 1, IF n # 0 THEN n ELSE last)
                  ELSE {}) = extra_keys
              /\ (IF n # 0 THEN SectionKeys(lines, n + 1, last) ELSE {}) =
                    not_keys
              /\ (e = 0) = (extra_keys = {})
              /\ (n = 0) = (not_keys = {})

\* ------------------------------- recur_node, strings_from_lg_file

\* An element of the export: its tag, its text (None for none) and its
\* children in document order.
Node(tag, text, children) == [tag |-> tag, text |-> text, children |-> children]

\* The None that stands where a node may (no element has an empty tag), and
\* the document ElementTree.parse fails on.
NoNode == Node("", None, <<>>)
Unparsable == Node("", Chars("not well-formed"), <<>>)

\* child_text with a loop that stops at the first child with the tag.
RECURSIVE first_child_text(_, _)
first_child_text(children, tag) ==
    IF children = <<>> THEN <<>>
    ELSE IF Head(children).tag = tag THEN Head(children).text
    ELSE first_child_text(Tail(children), tag)

\* The text the loop over the children of a TranslationSet leaves in base
\* (or tran): the text of the last child with the tag, '' when none has it.
RECURSIVE child_text(_, _)
child_text(children, tag) ==
    IF children = <<>> THEN <<>>
    ELSE IF children[Len(children)].tag = tag THEN children[Len(children)].text
    ELSE child_text(SubSeq(children, 1, Len(children) - 1), tag)

\* The test a base or a tran text has to pass (line 153).
accepted(text) ==
    /\ text # <<>>
    /\ text # None
    /\ ~Contains(text, <<Q>>)
    /\ ~Contains(text, <<NL>>)

\* recur_node(node, localized_strings): the list after the call.
RECURSIVE recur_node(_, _)
RECURSIVE recur_children(_, _)
recur_node(node, strings) ==
    IF node # NoNode
    THEN IF node.tag = "TranslationSet"
         THEN LET base == child_text(node.children, "base")
                  tran == child_text(node.children, "tran")
              IN  IF accepted(base) /\ accepted(tran)
                  THEN Append(strings, LocalizedString(base, tran, None))
                  ELSE strings
         ELSE recur_children(node.children, strings)
    ELSE strings

recur_children(children, strings) ==
    IF children = <<>> THEN strings
    ELSE recur_children(Tail(children), recur_node(Head(children), strings))

MaxFields == 3
FieldTexts(valid) ==
    {None, <<>>, valid, Chars("say \"hi\""), Chars("two\nlines")}

\* The children a TranslationSet is given: base and tran elements.
Fields ==
    {Node("base", t, <<>>) : t \in FieldTexts(Chars("k"))}
        \cup {Node("tran", t, <<>>) : t \in FieldTexts(Chars("v"))}

Set(base, tran) ==
    Node("TranslationSet", None,
         <<Node("base", Chars(base), <<>>), Node("tran", Chars(tran), <<>>)>>)

\* What stands before and after the set under test in the document: sets
\* of their own, one within a group, one holding a set as its child, an
\* element that is neither.
Before ==
    {<<>>,
     <<Node("group", None, <<Set("p", "q"), Node("base", Chars("x"), <<>>)>>)>>}
After ==
    {<<>>,
     <<Node("TranslationSet", None,
            <<Set("in", "ner"), Node("base", Chars("r"), <<>>),
              Node("tran", Chars("s"), <<>>)>>),
       Node("base", Chars("y"), <<>>)>>}

\* The documents: a set under test with up to MaxFields children, as the
\* root, among the elements before and after it, or within a group.
InitDocument ==
    \E n \in 0..MaxFields : \E fs \in [1..n -> Fields] :
        LET f == Node("TranslationSet", None, fs \o <<>>)
        IN  \/ document = f
            \/ \E b \in Before, a \in After :
                  document = Node("root", None, b \o <<f>> \o a)
            \/ \E a \in After :
                  document = Node("root", None,
                                  <<Node("group", None, <<f>>)>> \o a)

InitTree ==
    /\ log = <<>>
    /\ raised = "none"
    /\ lg_strings = <<>>
    /\ \/ pc = "read" /\ InitDocument
       \/ pc = "read" /\ document = Unparsable
       \/ pc = "recur" /\ document = NoNode
    /\ IdleRecord /\ IdleFile /\ IdleMatch /\ IdleWriter

\* strings_from_lg_file on a document that parses: the first encoding's
\* strings_from_encoded_lg_file returns the list recur_node has filled.
ReadExport ==
    /\ pc = "read"
    /\ document # Unparsable
    /\ lg_strings' = recur_node(document, <<>>)
    /\ log' = log \o [i \in 1..Len(lg_strings') |-> <<"debug", "Added string">>]
    /\ pc' = "returned"
    /\ UNCHANGED <<raised, document, recordVars, fileVars, matchVars,
                   writerVars>>

\* strings_from_lg_file on a document that does not parse: the except
\* clause logs the failure and leaves root unassigned, the call of
\* recur_node(root, ...) that follows raises UnboundLocalError, which is no
\* UnicodeError and so leaves strings_from_lg_file as well.
ReadUnparsable ==
    /\ pc = "read"
    /\ document = Unparsable
    /\ log' = Append(log, <<"debug", "Error parsing">>)
    /\ raised' = "UnboundLocalError"
    /\ pc' = "raised"
    /\ UNCHANGED <<document, lg_strings, recordVars, fileVars, matchVars,
                   writerVars>>

\* recur_node(None, []): nothing is added and 0 is returned.
RecurAbsent ==
    /\ pc = "recur"
    /\ lg_strings' = recur_node(document, <<>>)
    /\ pc' = "returned"
    /\ UNCHANGED <<log, raised, document, recordVars, fileVars, matchVars,
                   writerVars>>

NextTree == ReadExport \/ ReadUnparsable \/ RecurAbsent

SpecTree == InitTree /\ [][NextTree]_vars

\* C3 as stated: reading an export that fails to parse logs the failure,
\* passes no failure on to the caller and returns an empty collection.
C3_ParseFailureTolerated ==
    (document = Unparsable /\ pc # "read") =>
        /\ raised = "none"
        /\ pc = "returned"
        /\ lg_strings = <<>>
        /\ log # <<>>

\* The node at a path (the indices of the children to take from the root).
RECURSIVE NodeAt(_, _)
NodeAt(node, path) ==
    IF path = <<>> THEN node
    ELSE NodeAt(node.children[Head(path)], Tail(path))

\* The paths of the nodes that are visited: the root, and the children of
\* every visited node that is no TranslationSet.
RECURSIVE Visited(_)
Visited(node) ==
    {<<>>} \cup
    (IF node.tag = "TranslationSet" THEN {}
     ELSE UNION {{<<i>> \o p : p \in Visited(node.children[i])} :
                    i \in 1..Len(node.children)})

\* Document order of two paths neither of which leads through the other.
RECURSIVE Precedes(_, _)
Precedes(p, q) ==
    /\ p # <<>>
    /\ q # <<>>
    /\ \/ Head(p) < Head(q)
       \/ Head(p) = Head(q) /\ Precedes(Tail(p), Tail(q))

\* A set of such paths in document order.
RECURSIVE InOrder(_)
InOrder(paths) ==
    IF paths = {} THEN <<>>
    ELSE LET first == CHOOSE p \in paths :
                          \A q \in paths \ {p} : Precedes(p, q)
         IN  <<first>> \o InOrder(paths \ {first})

\* A text that is present, not empty, and holds no quote and no line feed.
Usable(text) == text # None /\ text # <<>> /\ Plain(text)

\* The texts of the children with a tag.
TextsOf(node, tag) ==
    {node.children[i].text :
        i \in {j \in 1..Len(node.children) : node.children[j].tag = tag}}

\* The text of the last child with a tag, None when there is none.
LastTextOf(node, tag) ==
    LET having == {j \in 1..Len(node.children) : node.children[j].tag = tag}
    IN  IF having = {} THEN None ELSE node.children[Max(having)].text

\* C8 as stated: in document order, one record for each visited
\* TranslationSet that has a base and a tran child with usable texts (key
\* the base text, value the tran text), and nothing else; the children of a
\* TranslationSet are not visited; an absent node yields nothing.
C8_SomeChild ==
    pc = "returned" =>
        IF document = NoNode THEN lg_strings = <<>>
        ELSE LET emitting ==
                     {p \in Visited(document) :
                         /\ NodeAt(document, p).tag = "TranslationSet"
                         /\ \E b \in TextsOf(NodeAt(document, p), "base") :
                               Usable(b)
                         /\ \E t \in TextsOf(NodeAt(document, p), "tran") :
                               Usable(t)}
                 order == InOrder(emitting)
             IN  /\ Len(lg_strings) = Len(order)
                 /\ \A n \in 1..Len(order) :
                       /\ lg_strings[n].key \in
                             TextsOf(NodeAt(document, order[n]), "base")
                       /\ lg_strings[n].value \in
                             TextsOf(NodeAt(document, order[n]), "tran")

\* C8: the same, the base and the tran child of a TranslationSet being the
\* last child with the tag.
C8_LastChild ==
    pc = "returned" =>
        IF document = NoNode THEN lg_strings = <<>>
        ELSE LET emitting ==
                     {p \in Visited(document) :
                         /\ NodeAt(document, p).tag = "TranslationSet"
                         /\ Usable(LastTextOf(NodeAt(document, p), "base"))
                         /\ Usable(LastTextOf(NodeAt(document, p), "tran"))}
                 order == InOrder(emitting)
             IN  /\ Len(lg_strings) = Len(order)
                 /\ \A n \in 1..Len(order) :
                       /\ lg_strings[n].key =
                             LastTextOf(NodeAt(document, order[n]), "base")
                       /\ lg_strings[n].value =
                             LastTextOf(NodeAt(document, order[n]), "tran")
                       /\ lg_strings[n].comment = None

\* A document has been read in which a set within a group, the set under
\* test (its last base child after an unusable one) and a set holding a
\* set each gave their record, in document order.
C8_Witness ==
    /\ pc = "returned"
    /\ Len(lg_strings) = 3
    /\ lg_strings[1].key = Chars("p")
    /\ lg_strings[2].key = Chars("k")
    /\ lg_strings[3].key = Chars("r")
    /\ Len(document.children) = 4
    /\ Len(document.children[2].children) = 3
    /\ document.children[2].children[1].text = Chars("say \"hi\"")
    /\ document.children[2].children[1].tag = "base"

====
